---- MODULE Spec2Model ----
(***************************************************************************)
(* Technical indicator engine of trading-model: moving_avg, ema, macd,     *)
(* boll_bands, calculate_adx (indicators/technical_indicators.py) and the  *)
(* snapshot assemblers run_strategy (indicators/daily-indicator.py) and    *)
(* run_strategy_w (indicators/weekly_strategy.py).                         *)
(*                                                                         *)
(* Numbers.  The code computes in IEEE doubles; the model computes in      *)
(* exact rationals extended with the IEEE specials, so that every          *)
(* definedness test of the code (pd.notna, != 0) is decided as the code    *)
(* decides it and no rounding error of the binary format is modelled:      *)
(*   <<n, d>>, d > 0, gcd(n, d) = 1   the rational n/d                     *)
(*   <<0, 0>>                         NaN  (np.nan)                        *)
(*   <<1, 0>>, <<-1, 0>>              +inf, -inf                           *)
(*   <<>>                             None                                 *)
(* Python lists are sequences; At(s, i) reads Python index i.              *)
(***************************************************************************)
EXTENDS Integers, Sequences, FiniteSets, TLC

VARIABLES input, call, args, ret

vars == <<input, call, args, ret>>

\* ------------------------------------------------------------------ numbers

NaN == <<0, 0>>
None == <<>>
PosInf == <<1, 0>>
NegInf == <<-1, 0>>

Abs(x) == IF x < 0 THEN -x ELSE x

RECURSIVE GCD(_, _)
GCD(a, b) == IF b = 0 THEN a ELSE GCD(b, a % b)

Norm(n, d) ==
    IF d = 0 THEN <<IF n > 0 THEN 1 ELSE IF n < 0 THEN -1 ELSE 0, 0>>
    ELSE LET g == GCD(Abs(n), Abs(d))
             s == IF d < 0 THEN -1 ELSE 1
         IN <<(s * n) \div g, (s * d) \div g>>

Num(n) == <<n, 1>>
Zero == Num(0)

IsNone(x) == Len(x) = 0
IsNaN(x) == Len(x) = 2 /\ x[2] = 0 /\ x[1] = 0
IsInf(x) == Len(x) = 2 /\ x[2] = 0 /\ x[1] # 0
IsNum(x) == Len(x) = 2 /\ x[2] > 0

\* pd.notna / pd.isna: None and NaN are missing, everything else is not
notna(x) == ~IsNone(x) /\ ~IsNaN(x)
isna(x) == ~notna(x)

\* IEEE +, -, *, / on the extended rationals (NaN propagates)
FAdd(x, y) ==
    IF IsNaN(x) \/ IsNaN(y) THEN NaN
    ELSE IF IsInf(x) /\ IsInf(y) THEN (IF x = y THEN x ELSE NaN)
    ELSE IF IsInf(x) THEN x
    ELSE IF IsInf(y) THEN y
    ELSE Norm(x[1] * y[2] + y[1] * x[2], x[2] * y[2])

FNeg(x) == IF IsNum(x) \/ IsInf(x) THEN <<-x[1], x[2]>> ELSE x

FSub(x, y) == FAdd(x, FNeg(y))

FMul(x, y) ==
    IF IsNaN(x) \/ IsNaN(y) THEN NaN
    ELSE Norm(x[1] * y[1], x[2] * y[2])

\* numpy division: x / 0 is +-inf or NaN (a RuntimeWarning, no exception)
FDiv(x, y) ==
    IF IsNaN(x) \/ IsNaN(y) THEN NaN
    ELSE IF IsInf(y) THEN (IF IsInf(x) THEN NaN ELSE Zero)
    ELSE IF y[1] = 0 THEN Norm(x[1], 0)
    ELSE Norm(x[1] * y[2] * (IF y[1] < 0 THEN -1 ELSE 1), x[2] * Abs(y[1]))

\* x < y, x > y on numbers; every comparison with NaN is false
FLt(x, y) ==
    /\ ~IsNaN(x) /\ ~IsNaN(y)
    /\ IF IsInf(x) \/ IsInf(y)
       THEN (IF IsInf(x) THEN x[1] ELSE 0) < (IF IsInf(y) THEN y[1] ELSE 0)
       ELSE x[1] * y[2] < y[1] * x[2]
FGt(x, y) == FLt(y, x)

FAbs(x) == IF IsNaN(x) THEN x ELSE <<Abs(x[1]), x[2]>>
FMax(x, y) == IF FGt(y, x) THEN y ELSE x

\* max(a, b, c) of Python: the first maximal argument, left to right
FMax3(x, y, z) == FMax(FMax(x, y), z)

\* round(x, 2): nearest multiple of 1/100, ties to even; NaN and inf unchanged
Round2(x) ==
    IF ~IsNum(x) THEN x
    ELSE LET m == 100 * x[1]
             f == m \div x[2]
             r == m % x[2]
             up == (2 * r > x[2]) \/ (2 * r = x[2] /\ f % 2 # 0)
         IN Norm(IF up THEN f + 1 ELSE f, 100)

\* exact square root of a rational square (np.std of the model's windows)
FSqrt(x) ==
    IF ~IsNum(x) THEN x
    ELSE LET q == x[1] * x[2]
             r == CHOOSE s \in 0..q : s * s = q
         IN Norm(r, x[2])

At(s, i) == s[i + 1]

\* the list with the entries of f, computed once
list(f) == f \o <<>>

\* an assignment name = v followed by the statements F(name)
Bind(v, F(_)) == F(v)

\* the sum of a list, by halves
RECURSIVE SumSeq(_)
SumSeq(s) ==
    IF Len(s) = 0 THEN Zero
    ELSE IF Len(s) = 1 THEN s[1]
    ELSE LET h == Len(s) \div 2
         IN FAdd(SumSeq(SubSeq(s, 1, h)), SumSeq(SubSeq(s, h + 1, Len(s))))

\* np.mean of a non-empty list
mean(s) == FDiv(SumSeq(s), Num(Len(s)))

\* ------------------------------------------- technical_indicators.py

\* [float(data[j][col_idx]) for j in range(lo, hi) if pd.notna(...)]
window_of(data, lo, hi, col_idx) ==
    LET all == [j \in 1..(hi - lo) |-> At(At(data, lo + j - 1), col_idx)]
    IN SelectSeq(list(all), notna)

\* mutant: no warm-up, the average of whatever part of the window exists
moving_avg_m(data, lookback, col_idx) ==
    [i1 \in 1..Len(data) |->
        LET i == i1 - 1
            lo == IF i - lookback + 1 < 0 THEN 0 ELSE i - lookback + 1
            window == window_of(data, lo, i + 1, col_idx)
        IN IF Len(window) > 0 THEN mean(window) ELSE NaN]

moving_avg(data, lookback, col_idx) ==
    IF Len(data) = 0 THEN <<>>
    ELSE [i1 \in 1..Len(data) |->
            LET i == i1 - 1
            IN IF i < lookback - 1 THEN NaN
               ELSE LET window == window_of(data, i - lookback + 1, i + 1, col_idx)
                    IN IF Len(window) > 0 THEN mean(window) ELSE NaN]

\* k = 2 / (lookback + 1)
ema_k(lookback) == FDiv(Num(2), Num(lookback + 1))

\* the seed at i == lookback - 1: mean of the defined values of range(i + 1)
ema_seed(data, i, col_idx) ==
    LET window == window_of(data, 0, i + 1, col_idx)
    IN IF Len(window) > 0 THEN mean(window) ELSE NaN

\* mutant: an undefined value invalidates the running state
ema_step_m(current, prev_ema, k) ==
    IF notna(current) /\ notna(prev_ema)
    THEN LET e == FAdd(FMul(current, k), FMul(prev_ema, FSub(Num(1), k)))
         IN <<e, e>>
    ELSE <<NaN, NaN>>

\* one pass of the else branch: <<prev_ema after the index, value appended>>
ema_step(current, prev_ema, k) ==
    IF notna(current) /\ notna(prev_ema)
    THEN LET e == FAdd(FMul(current, k), FMul(prev_ema, FSub(Num(1), k)))
         IN <<e, e>>
    ELSE <<prev_ema, NaN>>

\* the body of the loop at index i, on the loop's state <<prev_ema, result>>
ema_iter(data, lookback, col_idx, i, st) ==
    LET prev_ema == st[1]
        result == st[2]
    IN IF i < lookback - 1 THEN <<prev_ema, Append(result, NaN)>>
       ELSE IF i = lookback - 1
            THEN LET seed == ema_seed(data, i, col_idx)
                 IN <<seed, Append(result, seed)>>
       ELSE LET s == ema_step(At(At(data, i), col_idx), prev_ema, ema_k(lookback))
            IN <<s[1], Append(result, s[2])>>

\* for i in range(lo, hi), from state st; the range is run in two halves,
\* the second from the state the first ends in
RECURSIVE ema_loop(_, _, _, _, _, _)
ema_loop(data, lookback, col_idx, lo, hi, st) ==
    IF hi <= lo THEN st
    ELSE IF hi = lo + 1 THEN ema_iter(data, lookback, col_idx, lo, st)
    ELSE LET mid == (lo + hi) \div 2
             half == ema_loop(data, lookback, col_idx, lo, mid, st)
         IN IF Len(half[2]) = mid
            THEN ema_loop(data, lookback, col_idx, mid, hi, half)
            ELSE half

ema(data, lookback, col_idx) ==
    IF Len(data) = 0 THEN <<>>
    ELSE ema_loop(data, lookback, col_idx, 0, Len(data), <<None, <<>>>>)[2]

\* a[i] - b[i] where both are defined, NaN elsewhere
diff_defined(a, b) ==
    list([i \in 1..Len(a) |-> IF notna(a[i]) /\ notna(b[i]) THEN FSub(a[i], b[i]) ELSE NaN])

MacdFast == 12
MacdSlow == 26
MacdSignal == 9

\* signal_line = ema([[val] for val in macd_line], 9, 0)
macd_signal_of(macd_line) ==
    ema(list([i \in 1..Len(macd_line) |-> <<macd_line[i]>>]), MacdSignal, 0)

macd(data, col_idx) ==
    Bind(ema(data, MacdFast, col_idx), LAMBDA ema12 :
    Bind(ema(data, MacdSlow, col_idx), LAMBDA ema26 :
    Bind(diff_defined(ema12, ema26), LAMBDA macd_line :
    Bind(macd_signal_of(macd_line), LAMBDA signal_line :
    Bind(diff_defined(macd_line, signal_line), LAMBDA histogram :
        [macd_line |-> macd_line, signal_line |-> signal_line,
         histogram |-> histogram])))))

\* np.std: population standard deviation
std(window) ==
    LET m == mean(window)
        sq == list([j \in 1..Len(window) |-> FMul(FSub(window[j], m), FSub(window[j], m))])
    IN FSqrt(mean(sq))

boll_bands(data, col_idx, period, std_dev) ==
    LET band(i) ==
            IF i < period - 1 THEN <<NaN, NaN, NaN>>
            ELSE LET window == window_of(data, i - period + 1, i + 1, col_idx)
                 IN IF Len(window) = 0 THEN <<NaN, NaN, NaN>>
                    ELSE LET sma == mean(window)
                             sd == FMul(std(window), std_dev)
                         IN <<FAdd(sma, sd), sma, FSub(sma, sd)>>
    IN [upper |-> [i1 \in 1..Len(data) |-> band(i1 - 1)[1]],
        middle |-> [i1 \in 1..Len(data) |-> band(i1 - 1)[2]],
        lower |-> [i1 \in 1..Len(data) |-> band(i1 - 1)[3]]]

\* lists of length len(data) - 1, entry i - 1 for the day pair (i - 1, i)
high_diff(data, i) == FSub(At(At(data, i), 2), At(At(data, i - 1), 2))
low_diff(data, i) == FSub(At(At(data, i - 1), 3), At(At(data, i), 3))

plus_dm_at(data, i) ==
    IF FGt(high_diff(data, i), low_diff(data, i)) THEN FMax(high_diff(data, i), Zero) ELSE Zero

minus_dm_at(data, i) ==
    IF FGt(low_diff(data, i), high_diff(data, i)) THEN FMax(low_diff(data, i), Zero) ELSE Zero

true_range_at(data, i) ==
    FMax3(FSub(At(At(data, i), 2), At(At(data, i), 3)),
          FAbs(FSub(At(At(data, i), 2), At(At(data, i - 1), 4))),
          FAbs(FSub(At(At(data, i), 3), At(At(data, i - 1), 4))))

\* mutant: the seed skips the undefined entries
wilders_seed_m(series, p) ==
    LET w == SelectSeq(SubSeq(series, 1, p), notna)
    IN IF Len(w) > 0 THEN mean(w) ELSE NaN

\* smoothed[p-1] = np.mean(series[:p]), NaN entries included
wilders_seed(series, p) == mean(SubSeq(series, 1, p))

\* mutant: the previous value weighs p instead of p - 1
wilders_next_m(prev, s, p) == FDiv(FAdd(FMul(prev, Num(p)), s), Num(p))

\* smoothed[i] = (smoothed[i-1] * (p - 1) + series[i]) / p
wilders_next(prev, s, p) == FDiv(FAdd(FMul(prev, Num(p - 1)), s), Num(p))

\* for i in range(lo, hi): smoothed[i] = ..., run in two halves
RECURSIVE wilders_loop(_, _, _, _, _)
wilders_loop(series, p, lo, hi, smoothed) ==
    IF hi <= lo THEN smoothed
    ELSE IF hi = lo + 1
         THEN [smoothed EXCEPT
                 ![lo + 1] = wilders_next(At(smoothed, lo - 1), At(series, lo), p)]
    ELSE LET mid == (lo + hi) \div 2
             half == wilders_loop(series, p, lo, mid, smoothed)
         IN IF Len(half) = Len(series)
            THEN wilders_loop(series, p, mid, hi, half)
            ELSE half

wilders_smooth(series, p) ==
    LET smoothed == list([i \in 1..Len(series) |-> NaN])
    IN IF Len(series) < p THEN smoothed
       ELSE wilders_loop(series, p, p, Len(series),
                         [smoothed EXCEPT ![p] = wilders_seed(series, p)])

\* one pass of the DI loop: <<plus_di, minus_di, dx>> appended at index i
di_at(smooth_tr, smooth_pdm, smooth_mdm, i) ==
    IF notna(At(smooth_tr, i)) /\ At(smooth_tr, i) # Zero
    THEN LET pdi == FMul(FDiv(At(smooth_pdm, i), At(smooth_tr, i)), Num(100))
             mdi == FMul(FDiv(At(smooth_mdm, i), At(smooth_tr, i)), Num(100))
             sum_di == FAdd(pdi, mdi)
         IN <<pdi, mdi,
              IF sum_di # Zero
              THEN FMul(FDiv(FAbs(FSub(pdi, mdi)), sum_di), Num(100))
              ELSE Zero>>
    ELSE <<NaN, NaN, NaN>>

\* mutant: the DI values are read at the index of the ADX value
di_index_m(last_idx, period) == last_idx

\* the index the reported plus_di / minus_di are read at
di_index(last_idx, period) == last_idx + period - 1

\* round(di[last_idx + period - 1], 2) if len(di) > last_idx + period - 1 else nan
di_report(di, last_idx, period) ==
    IF Len(di) > di_index(last_idx, period)
    THEN Round2(At(di, di_index(last_idx, period)))
    ELSE NaN

\* round(adx_smooth[last_idx], 2) if pd.notna(adx_smooth[last_idx]) else nan
adx_report(adx_smooth, last_idx) ==
    IF notna(At(adx_smooth, last_idx)) THEN Round2(At(adx_smooth, last_idx)) ELSE NaN

NoList == <<>>

\* the locals of one call, and the dictionary it returns
calculate_adx(data, period) ==
    IF Len(data) < period + 1
    THEN [early |-> TRUE, period |-> period,
          true_ranges |-> NoList, plus_dm |-> NoList, minus_dm |-> NoList,
          smooth_tr |-> NoList, smooth_pdm |-> NoList, smooth_mdm |-> NoList,
          plus_di |-> NoList, minus_di |-> NoList, dx |-> NoList, adx_smooth |-> NoList,
          res |-> [adx |-> NaN, plus_di |-> NaN, minus_di |-> NaN]]
    ELSE
    Bind(list([i \in 1..(Len(data) - 1) |-> true_range_at(data, i)]), LAMBDA true_ranges :
    Bind(list([i \in 1..(Len(data) - 1) |-> plus_dm_at(data, i)]), LAMBDA plus_dm :
    Bind(list([i \in 1..(Len(data) - 1) |-> minus_dm_at(data, i)]), LAMBDA minus_dm :
    Bind(wilders_smooth(true_ranges, period), LAMBDA smooth_tr :
    Bind(wilders_smooth(plus_dm, period), LAMBDA smooth_pdm :
    Bind(wilders_smooth(minus_dm, period), LAMBDA smooth_mdm :
    Bind(list([i1 \in 1..Len(smooth_tr) |->
                  di_at(smooth_tr, smooth_pdm, smooth_mdm, i1 - 1)]), LAMBDA di :
    Bind(list([i1 \in 1..Len(di) |-> di[i1][1]]), LAMBDA plus_di :
    Bind(list([i1 \in 1..Len(di) |-> di[i1][2]]), LAMBDA minus_di :
    Bind(list([i1 \in 1..Len(di) |-> di[i1][3]]), LAMBDA dx :
    Bind(wilders_smooth(dx, period), LAMBDA adx_smooth :
    Bind(Len(adx_smooth) - 1, LAMBDA last_idx :
        [early |-> FALSE, period |-> period,
         true_ranges |-> true_ranges, plus_dm |-> plus_dm, minus_dm |-> minus_dm,
         smooth_tr |-> smooth_tr, smooth_pdm |-> smooth_pdm, smooth_mdm |-> smooth_mdm,
         plus_di |-> plus_di, minus_di |-> minus_di, dx |-> dx,
         adx_smooth |-> adx_smooth,
         res |-> [adx |-> adx_report(adx_smooth, last_idx),
                  plus_di |-> di_report(plus_di, last_idx, period),
                  minus_di |-> di_report(minus_di, last_idx, period)]]))))))))))))

\* ------------------------------- daily-indicator.py, weekly_strategy.py

Dma50 == 50
Dma200 == 200
BollPeriod == 20
BollStd == 2
AdxPeriod == 14
TenBack == 10
Close == 4

Min(a, b) == IF a < b THEN a ELSE b

\* The provider's answer is a sequence of quotes <<open, high, low, close,
\* volume>>, one per timestamp; a missing or null value reads as 0.
\* WORKDAY CHECK: keep [date, open, high, low, close, volume] where all are > 0
\* (the date is modelled by the index of the timestamp).
workday(q) == \A k \in 1..5 : FGt(q[k], Zero)

workday_rows(raw) ==
    LET rows == list([i1 \in 1..Len(raw) |-> <<i1 - 1>> \o raw[i1]])
    IN SelectSeq(rows, LAMBDA row : workday(SubSeq(row, 2, 6)))

ErrNoTimestamp == "ERROR: Failed to fetch historical data: No timestamp"
ErrNoData == "ERROR: No data"
ErrNoValidDays == "ERROR: No valid trading days"
ErrZeroDivision == "ERROR: float division by zero"

\* fetch_historical: raises on an answer without timestamps
fetch_historical(raw) ==
    IF Len(raw) = 0 THEN [raised |-> TRUE, rows |-> <<>>]
    ELSE [raised |-> FALSE, rows |-> workday_rows(raw)]

\* ((a - b) / b) * 100
pct(a, b) == FMul(FDiv(FSub(a, b), b), Num(100))

\* value if defined, None otherwise, rounded for the daily row
present_daily(x) == IF ~isna(x) THEN Round2(x) ELSE None

\* value if defined, np.nan otherwise
present_weekly(x) == IF notna(x) THEN x ELSE NaN

\* the else branch of the daily percentage changes
daily_else == Zero

price_ten_day_change(price, ten_day_price) ==
    IF ten_day_price # Zero THEN pct(price, ten_day_price) ELSE daily_else

price_dma_change(price, dma) ==
    IF notna(dma) /\ dma # Zero THEN pct(price, dma) ELSE daily_else

dma50_200dma_change(dma50, dma200) ==
    IF notna(dma200) /\ notna(dma50) /\ dma200 # Zero THEN pct(dma50, dma200)
    ELSE daily_else

\* fields 5..8 of the daily row
pct_fields_daily(price, ten_day_price, dma50, dma200) ==
    <<present_daily(price_ten_day_change(price, ten_day_price)),
      present_daily(price_dma_change(price, dma50)),
      present_daily(price_dma_change(price, dma200)),
      present_daily(dma50_200dma_change(dma50, dma200))>>

\* fields 5..8 of the weekly row; the first divides two Python floats, which
\* raises ZeroDivisionError on a zero ten_day_price, the others divide by a
\* numpy float
pct_raises_weekly(price, ten_day_price) == ten_day_price = Zero

pct_fields_weekly(price, ten_day_price, dma50, dma200) ==
    <<pct(price, ten_day_price),
      IF notna(dma50) THEN pct(price, dma50) ELSE NaN,
      IF notna(dma200) THEN pct(price, dma200) ELSE NaN,
      IF notna(dma50) /\ notna(dma200) THEN pct(dma50, dma200) ELSE NaN>>

\* mutant: the lookback is not clipped to the series
dma_lookback_m(n, len) == n

\* the lookbacks of the two moving averages of the snapshot
dma_lookback(n, len) == Min(n, len)

\* fields 1..4 and 9..17 of both rows, before presentation
snapshot_locals(hist) ==
    Bind(Len(hist) - 1, LAMBDA i :
    Bind(IF i - TenBack >= 0 THEN i - TenBack ELSE 0, LAMBDA i_10 :
    Bind(macd(hist, Close), LAMBDA m :
    Bind(boll_bands(hist, Close, BollPeriod, Num(BollStd)), LAMBDA bb :
    Bind(calculate_adx(hist, AdxPeriod).res, LAMBDA a :
        [price |-> At(At(hist, i), Close),
         ten_day_price |-> At(At(hist, i_10), Close),
         dma50 |-> At(moving_avg(hist, dma_lookback(Dma50, Len(hist)), Close), i),
         dma200 |-> At(moving_avg(hist, dma_lookback(Dma200, Len(hist)), Close), i),
         tail |-> <<At(m.macd_line, i), At(m.signal_line, i), At(m.histogram, i),
                    At(bb.upper, i), At(bb.middle, i), At(bb.lower, i),
                    a.adx, a.plus_di, a.minus_di>>])))))

\* mutant: the row lacks the DMA200 field
output_row_daily_m(l) ==
    <<present_daily(l.price), present_daily(l.ten_day_price), present_daily(l.dma50)>>
    \o pct_fields_daily(l.price, l.ten_day_price, l.dma50, l.dma200)
    \o [k \in 1..Len(l.tail) |-> present_daily(l.tail[k])]

output_row_daily(l) ==
    <<present_daily(l.price), present_daily(l.ten_day_price),
      present_daily(l.dma50), present_daily(l.dma200)>>
    \o pct_fields_daily(l.price, l.ten_day_price, l.dma50, l.dma200)
    \o [k \in 1..Len(l.tail) |-> present_daily(l.tail[k])]

output_row_weekly(l) ==
    <<l.price, l.ten_day_price, present_weekly(l.dma50), present_weekly(l.dma200)>>
    \o pct_fields_weekly(l.price, l.ten_day_price, l.dma50, l.dma200)
    \o [k \in 1..6 |-> present_weekly(l.tail[k])]
    \o SubSeq(l.tail, 7, 9)

\* every exception is caught and becomes [["ERROR: ..."]]
run_strategy(raw) ==
    Bind(fetch_historical(raw), LAMBDA f :
        IF f.raised THEN <<<<ErrNoTimestamp>>>>
        ELSE IF Len(f.rows) = 0 THEN <<<<ErrNoData>>>>
        ELSE <<output_row_daily(snapshot_locals(f.rows))>>)

run_strategy_w(raw) ==
    IF Len(raw) = 0 THEN <<<<ErrNoData>>>>
    ELSE Bind(workday_rows(raw), LAMBDA data :
            IF Len(data) = 0 THEN <<<<ErrNoValidDays>>>>
            ELSE Bind(snapshot_locals(data), LAMBDA l :
                    IF pct_raises_weekly(l.price, l.ten_day_price)
                    THEN <<<<ErrZeroDivision>>>>
                    ELSE <<output_row_weekly(l)>>))

\* ------------------------------------------------------------ inputs

MaxLen == 4
MaxFlat == 52
MaxPeriod == 3
MaxLibLen == 5
MaxLookback == 4

Quote(o, h, l, c, v) == <<Num(o), Num(h), Num(l), Num(c), Num(v)>>

\* two ordinary days, a day whose five values coincide, and a day the
\* workday check drops (no close)
ValidQuotes == {Quote(2, 3, 1, 2, 5), Quote(1, 1, 1, 1, 1), Quote(3, 4, 3, 4, 2)}
Quotes == ValidQuotes \cup {Quote(1, 1, 1, 0, 1)}

\* every short answer, and the flat answers (one quote repeated) up to MaxFlat
RawInputs ==
    UNION {[1..n -> Quotes] : n \in 0..MaxLen}
    \cup {[i \in 1..n |-> q] : n \in (MaxLen + 1)..MaxFlat, q \in ValidQuotes}

Periods == 1..MaxPeriod \cup {AdxPeriod}

\* one-column series with gaps, for the library functions called directly
LibVals == {NaN, Num(1), Num(4)}
LibInputs == UNION {[1..n -> {<<v>> : v \in LibVals}] : n \in 0..MaxLibLen}

\* operands of the percentage changes <<price, ten_day_price, dma50[i],
\* dma200[i]>>: two closes, and two averages that may be undefined
PctCloses == {Zero, Num(1), Num(3)}
PctInputs == PctCloses \X PctCloses \X (PctCloses \cup {NaN}) \X (PctCloses \cup {NaN})

\* the validated series of the answer
Hist == workday_rows(input)

\* ------------------------------------------------------------ actions

Start(inputs) ==
    /\ input \in inputs
    /\ call = "none"
    /\ args = <<>>
    /\ ret = <<>>

Apply(name, a, r) ==
    /\ call = "none"
    /\ call' = name
    /\ args' = a
    /\ ret' = r
    /\ UNCHANGED input

RunStrategy == Apply("run_strategy", <<>>, run_strategy(input))

RunStrategyW == Apply("run_strategy_w", <<>>, run_strategy_w(input))

Macd == Apply("macd", <<Close>>, macd(Hist, Close))

CalculateAdx == \E p \in Periods : Apply("calculate_adx", <<p>>, calculate_adx(Hist, p))

MovingAvg == \E L \in 1..MaxLookback : Apply("moving_avg", <<L>>, moving_avg(input, L, 0))

Ema == \E L \in 1..MaxLookback : Apply("ema", <<L>>, ema(input, L, 0))

PctDaily ==
    Apply("pct_daily", <<>>,
          [raised |-> FALSE,
           fields |-> pct_fields_daily(input[1], input[2], input[3], input[4])])

PctWeekly ==
    Apply("pct_weekly", <<>>,
          IF pct_raises_weekly(input[1], input[2])
          THEN [raised |-> TRUE, fields |-> <<>>]
          ELSE [raised |-> FALSE,
                fields |-> pct_fields_weekly(input[1], input[2], input[3], input[4])])

\* the strategies and the indicators on a fetched series
Init == Start(RawInputs)
Next == RunStrategy \/ RunStrategyW \/ Macd \/ CalculateAdx
Spec == Init /\ [][Next]_vars

\* the moving averages on a series with gaps
InitLib == Start(LibInputs)
NextLib == MovingAvg \/ Ema
SpecLib == InitLib /\ [][NextLib]_vars

\* the percentage changes on every operand
InitPct == Start(PctInputs)
NextPct == PctDaily \/ PctWeekly
SpecPct == InitPct /\ [][NextPct]_vars

\* ------------------------------------------------------------ claims

RowFields == 17

Strategies == {"run_strategy", "run_strategy_w"}

ErrorIndicators == {ErrNoTimestamp, ErrNoData, ErrNoValidDays, ErrZeroDivision}

\* how a field of the row is presented by the strategy that was called
Presented(x) == IF call = "run_strategy" THEN present_daily(x) ELSE present_weekly(x)

Closes == list([i \in 1..Len(Hist) |-> At(Hist[i], Close)])

\* all rows carry the same open, high, low, close and volume
IsFlat(h) == \A i \in 1..Len(h) : SubSeq(h[i], 2, 6) = SubSeq(h[1], 2, 6)

\* a field is a number or an undefined marker
IsField(x) == IsNone(x) \/ IsNaN(x) \/ IsNum(x)

\* C1: run_strategy and run_strategy_w return exactly one row; for an empty
\* validated series the row is a single error indicator, for a series of any
\* length >= 1 it has the 17 fields price, 10-period-ago price, DMA50, DMA200,
\* the four percentage changes, MACD line/signal/histogram, Bollinger
\* upper/middle/lower, ADX, +DI, -DI, in this order.
C1_OneRow ==
    call \in Strategies =>
        /\ Len(ret) = 1
        /\ IF Len(Hist) = 0
           THEN Len(ret[1]) = 1 /\ ret[1][1] \in ErrorIndicators
           ELSE LET row == ret[1]
                    i == Len(Hist) - 1
                    i_10 == IF i >= TenBack THEN i - TenBack ELSE 0
                    price == At(Closes, i)
                    ten == At(Closes, i_10)
                    d50 == At(moving_avg(Hist, Min(Dma50, Len(Hist)), Close), i)
                    d200 == At(moving_avg(Hist, Min(Dma200, Len(Hist)), Close), i)
                    m == macd(Hist, Close)
                    bb == boll_bands(Hist, Close, BollPeriod, Num(BollStd))
                    a == calculate_adx(Hist, AdxPeriod).res
                IN /\ Len(row) = RowFields
                   /\ \A k \in 1..RowFields : IsField(row[k])
                   /\ row[1] = Presented(price) /\ row[2] = Presented(ten)
                   /\ row[3] = Presented(d50) /\ row[4] = Presented(d200)
                   /\ row[5] = Presented(pct(price, ten))
                   /\ row[6] = Presented(pct(price, d50))
                   /\ row[7] = Presented(pct(price, d200))
                   /\ row[8] = Presented(pct(d50, d200))
                   /\ row[9] = Presented(At(m.macd_line, i))
                   /\ row[10] = Presented(At(m.signal_line, i))
                   /\ row[11] = Presented(At(m.histogram, i))
                   /\ row[12] = Presented(At(bb.upper, i))
                   /\ row[13] = Presented(At(bb.middle, i))
                   /\ row[14] = Presented(At(bb.lower, i))
                   /\ row[15] = Presented(a.adx)
                   /\ row[16] = Presented(a.plus_di)
                   /\ row[17] = Presented(a.minus_di)

\* a one-day series, shorter than every lookback, yields the 17-field row
C1_Witness ==
    /\ call = "run_strategy"
    /\ Len(Hist) = 1
    /\ Len(ret) = 1 /\ Len(ret[1]) = RowFields

\* C2: each of the four percentage-change fields is undefined when its
\* denominator is zero or undefined, and is (a-b)/b*100 (as the row presents
\* it) otherwise; it is never a defined number when the denominator is zero
\* or undefined.
\* The operands of the four fields: price/tenDayPrice, price/DMA50,
\* price/DMA200, DMA50/DMA200.
PctOperands == <<<<1, 2>>, <<1, 3>>, <<1, 4>>, <<3, 4>>>>

C3_FlatMacdZero ==
    (call = "macd" /\ IsFlat(Hist) /\ Len(Hist) >= MacdSlow + MacdSignal - 1) =>
        /\ At(ret.macd_line, Len(Hist) - 1) = Zero
        /\ At(ret.histogram, Len(Hist) - 1) = Zero

\* C4: on a flat series of at least 2p rows calculate_adx(series, p) reports
\* a defined adx equal to 0.
C4_FlatAdxZero ==
    (call = "calculate_adx" /\ IsFlat(Hist) /\ Len(Hist) >= 2 * args[1]) =>
        ret.res.adx = Zero

\* C5: plus_di and minus_di are reported as the DI series' value (rounded to
\* 2 decimals) at index lastIndex + period - 1 when that index is in bounds
\* and as undefined otherwise; the DI series and the ADX-smoothed series both
\* have n-1 entries, so for period >= 2 both are undefined for every series.
C5_DiIndexOutOfRange ==
    call = "calculate_adx" =>
        LET p == args[1]
            lastIndex == Len(ret.adx_smooth) - 1
            idx == lastIndex + p - 1
            reported(di, r) ==
                r = IF idx < Len(di) THEN Round2(At(di, idx)) ELSE NaN
        IN /\ ~ret.early =>
                /\ Len(ret.plus_di) = Len(Hist) - 1
                /\ Len(ret.minus_di) = Len(Hist) - 1
                /\ Len(ret.adx_smooth) = Len(Hist) - 1
                /\ reported(ret.plus_di, ret.res.plus_di)
                /\ reported(ret.minus_di, ret.res.minus_di)
           /\ p >= 2 => isna(ret.res.plus_di) /\ isna(ret.res.minus_di)

\* the DI series are defined at their last index, yet nothing is reported
C5_Witness ==
    /\ call = "calculate_adx" /\ args[1] >= 2 /\ ~ret.early
    /\ IsNum(At(ret.plus_di, Len(ret.plus_di) - 1))
    /\ IsNum(At(ret.minus_di, Len(ret.minus_di) - 1))
    /\ isna(ret.res.plus_di) /\ isna(ret.res.minus_di)

\* the defined outputs of ema before index i
DefinedBefore(out, i) == {j \in 0..(i - 1) : notna(At(out, j))}

MaxOf(S) == CHOOSE x \in S : \A y \in S : y <= x

\* C6: in ema(series, L, field) with a defined seed at index L-1, the output
\* at an index i > L-1 with an undefined value is undefined, and at an index
\* with a defined value c it is c*k + s*(1-k), k = 2/(L+1), s the most recent
\* defined output: the recurrence resumes across gaps without being reset.
C6_EmaResumesAcrossGaps ==
    (call = "ema" /\ Len(input) >= args[1] /\ notna(At(ret, args[1] - 1))) =>
        \A i \in args[1]..(Len(input) - 1) :
            LET c == At(At(input, i), 0)
                k == FDiv(Num(2), Num(args[1] + 1))
                s == At(ret, MaxOf(DefinedBefore(ret, i)))
            IN IF isna(c) THEN isna(At(ret, i))
               ELSE At(ret, i) = FAdd(FMul(c, k), FMul(s, FSub(Num(1), k)))

\* a gap of two undefined values after the seed, then a defined output
C6_Witness ==
    /\ call = "ema" /\ Len(input) >= args[1] + 3
    /\ notna(At(ret, args[1] - 1))
    /\ \E i \in args[1]..(Len(input) - 3) :
          /\ isna(At(At(input, i), 0)) /\ isna(At(At(input, i + 1), 0))
          /\ IsNum(At(ret, i + 2))

IsConstant(series) ==
    Len(series) > 0 /\ IsNum(series[1]) /\ \A i \in 1..Len(series) : series[i] = series[1]

SmoothedConstant(series, smoothed, p) ==
    (IsConstant(series) /\ Len(series) >= p) =>
        /\ Len(smoothed) = Len(series)
        /\ \A i \in 0..(Len(series) - 1) :
              IF i < p - 1 THEN isna(At(smoothed, i)) ELSE At(smoothed, i) = series[1]

\* C7: Wilder's smoothing with period p of a constant series of value v and
\* length m >= p has length m, is undefined below index p-1 and equals v from
\* index p-1 to m-1.
C7_WilderConstant ==
    (call = "calculate_adx" /\ ~ret.early) =>
        /\ SmoothedConstant(ret.true_ranges, ret.smooth_tr, args[1])
        /\ SmoothedConstant(ret.plus_dm, ret.smooth_pdm, args[1])
        /\ SmoothedConstant(ret.minus_dm, ret.smooth_mdm, args[1])
        /\ SmoothedConstant(ret.dx, ret.adx_smooth, args[1])

\* a constant non-zero true range, smoothed past its seed
C7_Witness ==
    /\ call = "calculate_adx" /\ ~ret.early /\ args[1] >= 2
    /\ IsConstant(ret.true_ranges) /\ ret.true_ranges[1] # Zero
    /\ Len(ret.true_ranges) >= args[1] + 2
    /\ At(ret.smooth_tr, Len(ret.smooth_tr) - 1) = ret.true_ranges[1]

\* C8: moving_avg and ema return a series of the input's length that is
\* undefined at every index i < L-1, hence everywhere when the input is
\* shorter than L.
C8_LengthAndWarmup ==
    call \in {"moving_avg", "ema"} =>
        /\ Len(ret) = Len(input)
        /\ \A i \in 0..(Len(input) - 1) : i < args[1] - 1 => isna(At(ret, i))

\* a series of defined values shorter than the lookback
C8_Witness ==
    /\ call \in {"moving_avg", "ema"}
    /\ Len(input) >= 2 /\ Len(input) < args[1]
    /\ \A i \in 1..Len(input) : IsNum(input[i][1])
    /\ \A i \in 1..Len(ret) : isna(ret[i])

\* C9: for every period p >= 2 the reported adx is undefined: DX is undefined
\* at indices 0..p-2, so the seed of the last smoothing (the plain mean of
\* dx[0..p-1]) is undefined and the recurrence carries that to the last index.
C9_AdxAlwaysUndefined ==
    (call = "calculate_adx" /\ args[1] >= 2) =>
        /\ isna(ret.res.adx)
        /\ ~ret.early =>
              /\ \A i \in 0..(args[1] - 2) : isna(At(ret.dx, i))
              /\ \A i \in 0..(Len(ret.adx_smooth) - 1) : isna(At(ret.adx_smooth, i))

\* DX is defined from index p-1 on, over at least p entries, and adx is not
C9_Witness ==
    /\ call = "calculate_adx" /\ args[1] >= 2 /\ ~ret.early
    /\ Len(ret.dx) >= 2 * args[1] - 1
    /\ \A i \in (args[1] - 1)..(Len(ret.dx) - 1) : IsNum(At(ret.dx, i))
    /\ isna(ret.res.adx)

\* C10: the SMA lookbacks are clipped to min(50, n) and min(200, n), so for a
\* non-empty validated series DMA50 and DMA200 are defined at the last index;
\* for n < 50 DMA50 is the mean of all n closes, for n < 200 DMA200 is, and
\* for n <= 50 the two are equal.
C10_DmaClipped ==
    (call \in Strategies /\ Len(Hist) >= 1) =>
        LET n == Len(Hist)
            row == ret[1]
        IN /\ IsNum(row[3]) /\ IsNum(row[4])
           /\ n < Dma50 => row[3] = Presented(mean(Closes))
           /\ n < Dma200 => row[4] = Presented(mean(Closes))
           /\ n <= Dma50 => row[3] = row[4]

\* three days with different closes: both averages are the mean of the three
C10_Witness ==
    /\ call \in Strategies /\ Len(Hist) = 3
    /\ Closes[1] # Closes[2] /\ Closes[2] # Closes[3]
    /\ IsNum(ret[1][3]) /\ ret[1][3] = ret[1][4]

====
